---- MODULE Spec2Model ----
(***************************************************************************)
(* A model of package datagram (gbkr-com/datagram): an Endpoint over a UDP *)
(* socket, its pooled bytes.Buffer payload buffers, pooled Writers and the *)
(* Readers that Receive hands out.                                         *)
(*                                                                         *)
(* Bytes are 0..255.  A uint64 is four 16-bit limbs, most significant      *)
(* first, so that 64-bit values stay inside the checker's integers; the    *)
(* big-endian encoders split the limbs into bytes.                         *)
(***************************************************************************)
EXTENDS Integers, Sequences, FiniteSets, TLC

\* ------------------------------------------------------------------------
\* Bounds of the model.
\* ------------------------------------------------------------------------
\* Datagrams in flight towards the endpoint's socket.
MaxNet == 1
\* Calls a run makes on the endpoint, its writers and its readers.
MaxCalls == 5

\* ------------------------------------------------------------------------
\* Values.
\* ------------------------------------------------------------------------
\* The nil pointer: object identifiers start at 1.
NIL == 0

Byte == 0..255
Limb == 0..65535

Zero64 == <<0, 0, 0, 0>>
Max64 == <<65535, 65535, 65535, 65535>>

\* An increment that stops at 2^64 - 1 instead of wrapping.
Incr64Saturating(u) ==
    IF u[4] < 65535 THEN <<u[1], u[2], u[3], u[4] + 1>>
    ELSE IF u[3] < 65535 THEN <<u[1], u[2], u[3] + 1, 0>>
    ELSE IF u[2] < 65535 THEN <<u[1], u[2] + 1, 0, 0>>
    ELSE IF u[1] < 65535 THEN <<u[1] + 1, 0, 0, 0>>
    ELSE u

\* u + 1 modulo 2^64 (e.sequence++).
Incr64(u) ==
    IF u[4] < 65535 THEN <<u[1], u[2], u[3], u[4] + 1>>
    ELSE IF u[3] < 65535 THEN <<u[1], u[2], u[3] + 1, 0>>
    ELSE IF u[2] < 65535 THEN <<u[1], u[2] + 1, 0, 0>>
    ELSE IF u[1] < 65535 THEN <<u[1] + 1, 0, 0, 0>>
    ELSE Zero64

\* Bitwise complement and two's complement negation of a uint64.
Not64(u) == <<65535 - u[1], 65535 - u[2], 65535 - u[3], 65535 - u[4]>>
Neg64(u) == Incr64(Not64(u))

\* An int64 is a sign and a magnitude; uint64(v) and int64(u) are Go's
\* two's complement conversions.
Int64ToUint64(v) == IF v.neg THEN Neg64(v.mag) ELSE v.mag
Uint64ToInt64(u) ==
    IF u[1] >= 32768 THEN [neg |-> TRUE, mag |-> Neg64(u)]
    ELSE [neg |-> FALSE, mag |-> u]

\* A float64 is its IEEE 754 fields: sign bit, biased 11-bit exponent and
\* the 52-bit fraction as a 4-bit limb followed by three 16-bit limbs.
Float64bits(f) ==
    <<f.sign * 32768 + f.exp * 16 + f.frac[1], f.frac[2], f.frac[3], f.frac[4]>>
Float64frombits(u) ==
    [sign |-> u[1] \div 32768,
     exp |-> (u[1] % 32768) \div 16,
     frac |-> <<u[1] % 16, u[2], u[3], u[4]>>]

\* binary.BigEndian.
PutUint16(v) == <<v \div 256, v % 256>>
Uint16(b) == b[1] * 256 + b[2]
PutUint64(u) ==
    <<u[1] \div 256, u[1] % 256, u[2] \div 256, u[2] % 256,
      u[3] \div 256, u[3] % 256, u[4] \div 256, u[4] % 256>>
Uint64(b) ==
    <<b[1] * 256 + b[2], b[3] * 256 + b[4], b[5] * 256 + b[6], b[7] * 256 + b[8]>>

Zeros(n) == [i \in 1..n |-> 0]

Min(a, b) == IF a < b THEN a ELSE b
Max(a, b) == IF a < b THEN b ELSE a

\* MaxPayload = math.MaxUint16 - 8 (UDP) - 20 (IPv4).
MaxPayload == 65535 - 8 - 20

\* ------------------------------------------------------------------------
\* Errors.
\* ------------------------------------------------------------------------
NoErr == "nil"
ErrOverflow == "overflow"
ErrClosedWriter == "closed writer"
ErrClosedReader == "closed reader"
ErrEOF == "EOF"
ErrUnexpectedEOF == "unexpected EOF"
ErrTransport == "transport"

\* ------------------------------------------------------------------------
\* bytes.Buffer: buf is the slice b.buf (its length is len(b.buf)), off the
\* read offset b.off and cap the capacity cap(b.buf) of the backing array.
\* ------------------------------------------------------------------------
\* bytes.smallBufferSize: the capacity of the first allocation of a small
\* buffer.
SmallBufferSize == 64

\* The allocator's size classes up to 32 KiB; larger objects are whole pages.
SizeClasses ==
    {8, 16, 24, 32, 48, 64, 80, 96, 112, 128, 144, 160, 176, 192, 208, 224,
     240, 256, 288, 320, 352, 384, 416, 448, 480, 512, 576, 640, 704, 768,
     896, 1024, 1152, 1280, 1408, 1536, 1792, 2048, 2304, 2688, 3072, 3200,
     3456, 4096, 4864, 5120, 5376, 6144, 6528, 6784, 6912, 8192, 9472, 9728,
     10240, 10880, 12288, 13568, 14336, 16384, 18432, 19072, 20480, 21760,
     24576, 27264, 28672, 32768}
RoundUpSize(n) ==
    IF n > 32768 THEN ((n + 8191) \div 8192) * 8192
    ELSE CHOOSE c \in SizeClasses :
            c >= n /\ \A d \in SizeClasses : d >= n => c <= d

\* b.Len(), b.Cap(), b.Bytes(), b.Reset().
BufLen(b) == Len(b.buf) - b.off
BufCap(b) == b.cap
BufBytes(b) == SubSeq(b.buf, b.off + 1, Len(b.buf))
BufReset(b) == [b EXCEPT !.buf = <<>>, !.off = 0]

\* The capacities new(bytes.Buffer).Grow(n) can leave: the first allocation
\* of at most smallBufferSize bytes has capacity smallBufferSize; a larger
\* one has exactly n bytes (makeSlice) or n rounded up to a size class
\* (growSlice's append), depending on the Go release that builds the program.
NewBufferCaps(n) ==
    IF n <= SmallBufferSize THEN {SmallBufferSize} ELSE {n, RoundUpSize(n)}
NewBuffers(n) == {[buf |-> <<>>, off |-> 0, cap |-> c] : c \in NewBufferCaps(n)}

\* The capacities a reallocation in b.grow(n) can leave: makeSlice(2*c + n),
\* or growSlice(b.buf[b.off:], b.off+n) rounded up to a size class.
GrowCaps(b, n) ==
    {2 * b.cap + n,
     RoundUpSize(Max(BufLen(b) + b.off + n, 2 * (b.cap - b.off)))}

\* b.Write(p): the buffers it can leave.  The slice is extended in place
\* when p fits behind len(b.buf); otherwise grow() resets an empty buffer,
\* slides the unread bytes down, or reallocates.
BufWrite(b, p) ==
    LET n == Len(p)
        m == BufLen(b)
        e == IF m = 0 /\ b.off # 0 THEN BufReset(b) ELSE b
    IN  IF n <= b.cap - Len(b.buf) THEN {[b EXCEPT !.buf = @ \o p]}
        ELSE IF n <= e.cap - Len(e.buf) THEN {[e EXCEPT !.buf = @ \o p]}
        ELSE IF n <= (e.cap \div 2) - m
             THEN {[e EXCEPT !.buf = BufBytes(e) \o p, !.off = 0]}
        ELSE {[buf |-> BufBytes(e) \o p, off |-> 0, cap |-> c] : c \in GrowCaps(e, n)}

\* b.Read(p) with len(p) = n: an empty buffer is reset and reports io.EOF
\* (nil for n = 0); otherwise up to n unread bytes are consumed.
BufRead(b, n) ==
    IF BufLen(b) = 0
    THEN [b |-> BufReset(b), data |-> <<>>, err |-> IF n = 0 THEN NoErr ELSE ErrEOF]
    ELSE LET k == Min(n, BufLen(b))
         IN  [b |-> [b EXCEPT !.off = @ + k],
              data |-> SubSeq(b.buf, b.off + 1, b.off + k),
              err |-> NoErr]

\* io.ReadFull(b, bs) with len(bs) = n > 0, as binary.Read calls it: a second
\* Read follows a short first one, finds the buffer empty and resets it.
ReadFull(b, n) ==
    LET r == BufRead(b, n)
    IN  IF r.err # NoErr THEN r
        ELSE IF Len(r.data) = n THEN r
        ELSE [b |-> BufReset(r.b), data |-> r.data, err |-> ErrUnexpectedEOF]

\* b.Truncate(n), 0 <= n <= b.Len().
BufTruncate(b, n) ==
    IF n = 0 THEN BufReset(b) ELSE [b EXCEPT !.buf = SubSeq(@, 1, b.off + n)]

\* ------------------------------------------------------------------------
\* app.Pool: a bounded free list.  Next takes an idle item or fabricates one
\* when the pool is empty; Recycle resets the item and keeps it unless the
\* pool is full (WithPoolDiscard).
\* ------------------------------------------------------------------------
\* The identifier a fabricated object gets: the least one not in use.
FreshId(used) ==
    CHOOSE i \in 1..(Cardinality(used) + 1) :
        i \notin used /\ \A j \in 1..(i - 1) : j \in used

\* The items Next can return.
PoolNext(idle, used) == IF idle = {} THEN {FreshId(used)} ELSE idle

\* The reset functions of the two pools: b.Reset() and w.buffer = nil.
BufferReset(b) == BufReset(b)
\* A writer reset that leaves the buffer reference in place.
WriterResetKeepsBuffer(w) == w
WriterReset(w) == [buffer |-> NIL, log |-> << >>]

\* The idle set after Recycle(x).
PoolRecycle(idle, size, x) ==
    IF Cardinality(idle) < size THEN idle \cup {x} ELSE idle

\* ------------------------------------------------------------------------
\* Inputs.
\* ------------------------------------------------------------------------
\* A filter hash (0x0102030405060708) and a stranger's (0x0102030405060709).
Hash1 == <<258, 772, 1286, 1800>>
Hash2 == <<258, 772, 1286, 1801>>

\* Tagged values: what a caller writes and a reader returns.
Val(t, v) == [t |-> t, v |-> v]
None == Val("none", 0)

U16Vals == {513}
U64Vals == {Max64}
I64Vals == {[neg |-> TRUE, mag |-> <<0, 0, 0, 2>>]}
\* math.Pi = 0x400921FB54442D18.
Pi == [sign |-> 0, exp |-> 1024, frac |-> <<9, 8699, 21572, 11544>>]
F64Vals == {Pi}
\* Slices of n non-zero bytes, n around the payload size.
Fill(n) == [i \in 1..n |-> 1 + (i % 255)]
ByteStrs(payload) ==
    {Fill(n) : n \in {payload - 6, payload - 2, payload - 1} \cap Nat}

\* Arguments of SetSequence.
SeqVals == {Max64}
\* What strangers send: a short datagram, and one led by another hash.
StrangerData == {<<1, 2, 3>>, PutUint64(Hash2) \o <<0, 1>>}

Timeouts == {0, 20}
Addrs == {"self", "other"}

\* The arguments of NewEndpoint the running endpoint is checked with.
Proto(h, s, p) == [Hash |-> h, Sequenced |-> s, Payload |-> p]
RunProtocols ==
    {Proto(Zero64, FALSE, 64), Proto(Hash1, TRUE, 64),
     Proto(Zero64, TRUE, 16), Proto(Hash1, FALSE, 16)}
RunArgs ==
    [hasProtocol : {TRUE}, protocol : RunProtocols, port : {0}, pool : {1}]

\* The arguments construction is checked with.
NewProtocols ==
    [Hash : {Zero64, Hash1}, Sequenced : BOOLEAN,
     Payload : {0, 1, 7, 8, 9, 256, MaxPayload, MaxPayload + 1, 65535}]
NewArgs ==
    [hasProtocol : BOOLEAN, protocol : NewProtocols,
     port : {-1, 0, 8080, 65536}, pool : {-1, 0, 1, 8}]

\* Identifiers of the Writer and Reader objects that can be alive at once.
WriterIds == {1, 2}
ReaderIds == {1}

\* ------------------------------------------------------------------------
\* State.
\* ------------------------------------------------------------------------
VARIABLES
    args,       \* NewEndpoint's arguments: protocol (or nil), port, pool
    status,     \* "new", "ok", "error" (NewEndpoint returned one), "panic"
    conn,       \* e.conn: "nil", "open", "closed"
    sequence,   \* e.sequence
    bufs,       \* the bytes.Buffer objects in use, by identifier
    bpool,      \* e.buffers: the idle buffers
    writers,    \* the Writer objects in use: buffer (or NIL); log is history
    wpool,      \* e.writers: the idle writers
    wheld,      \* the writers callers hold a reference to
    released,   \* history: the writers a successful Send has released
    hist,       \* history: the calls made so far, those of Writer (acq), the
                \* Sends that succeeded (sent), whether SetSequence was called
    readers,    \* the Reader objects callers hold: buffer (or NIL); history
    net,        \* datagrams on their way to the endpoint's socket
    last,       \* the last call and what it returned
    tasks       \* the tasks inside a call of Writer(), when calls overlap

vars ==
    <<args, status, conn, sequence, bufs, bpool, writers, wpool, wheld,
      released, hist, readers, net, last, tasks>>

protocol == args.protocol

\* e.zero.
Zero == Zeros(protocol.Payload)

\* Every call counts, up to the bound of the run.
NoHistory == [calls |-> 0, acq |-> 0, sent |-> 0, set |-> FALSE]
CanCall == status = "ok" /\ hist.calls < MaxCalls
Called == [hist EXCEPT !.calls = @ + 1]

\* No task is inside a call.
NoTasks == << >>

Result(op, id, err, val) ==
    [op |-> op, id |-> id, err |-> err, val |-> val, addr |-> "nil"]

\* The buffers still referenced by a pool, a writer or a reader; the others
\* are garbage.
Collect(bs, bp, ws, rs) ==
    LET live == bp \cup {ws[w].buffer : w \in DOMAIN ws}
                   \cup {rs[r].buffer : r \in DOMAIN rs}
    IN  [b \in (DOMAIN bs) \cap live |-> bs[b]]

\* ------------------------------------------------------------------------
\* NewEndpoint.
\* ------------------------------------------------------------------------
\* PanicReason with the hash check off by one (Payload <= 8).
PanicReasonHashBound(a) ==
    IF ~a.hasProtocol THEN "protocol"
    ELSE IF a.protocol.Payload = 0 \/ a.protocol.Payload > MaxPayload THEN "payload"
    ELSE IF a.protocol.Hash # Zero64 /\ a.protocol.Payload <= 8 THEN "hash"
    ELSE IF a.port < 0 THEN "port"
    ELSE IF a.pool < 1 THEN "pool"
    ELSE "none"

\* The panic NewEndpoint raises for its arguments, "none" when it raises none.
PanicReason(a) ==
    IF ~a.hasProtocol THEN "protocol"
    ELSE IF a.protocol.Payload = 0 \/ a.protocol.Payload > MaxPayload THEN "payload"
    ELSE IF a.protocol.Hash # Zero64 /\ a.protocol.Payload < 8 THEN "hash"
    ELSE IF a.port < 0 THEN "port"
    ELSE IF a.pool < 1 THEN "pool"
    ELSE "none"

Unconstructed ==
    /\ conn = "nil"
    /\ sequence = Zero64
    /\ bufs = << >>
    /\ bpool = {}
    /\ writers = << >>
    /\ wpool = {}
    /\ wheld = {}
    /\ released = {}
    /\ hist = NoHistory
    /\ readers = << >>
    /\ net = << >>
    /\ tasks = NoTasks

\* NewEndpoint(protocol, port, pool): panics on invalid arguments, returns
\* an error when the address does not resolve or the bind fails, and else
\* the endpoint with its socket bound and both pools empty.
NewEndpoint(bindOk) ==
    /\ status = "new"
    /\ LET r == PanicReason(args)
       IN  IF r # "none"
           THEN /\ status' = "panic"
                /\ conn' = conn
                /\ last' = Result("NewEndpoint", NIL, r, None)
           ELSE IF args.port > 65535 \/ ~bindOk
           THEN /\ status' = "error"
                /\ conn' = conn
                /\ last' = Result("NewEndpoint", NIL, ErrTransport, None)
           ELSE /\ status' = "ok"
                /\ conn' = "open"
                /\ last' = Result("NewEndpoint", NIL, NoErr, None)
    /\ UNCHANGED <<tasks, args, sequence, bufs, bpool, writers, wpool, wheld,
                   released, hist, readers, net>>

InitNew ==
    /\ args \in NewArgs
    /\ status = "new"
    /\ Unconstructed
    /\ last = Result("none", NIL, NoErr, None)

NextNew == \E bindOk \in BOOLEAN : NewEndpoint(bindOk)

SpecNew == InitNew /\ [][NextNew]_vars

\* ------------------------------------------------------------------------
\* Writer.
\* ------------------------------------------------------------------------
\* w.Remaining() on a writer with buffer b.
Remaining(b) == BufCap(b) - BufLen(b)

\* FixedOverflow off by one: an exact fit is refused.
FixedOverflowExactFit(b, size) == BufCap(b) <= BufLen(b) + size

\* The guard of the fixed-width writes: w.buffer.Cap() < w.buffer.Len()+size.
FixedOverflow(b, size) == BufCap(b) < BufLen(b) + size

\* A fixed-width write of the encoded bytes bs into buffer b: the buffers
\* and errors it can leave.
WriteFixed(b, bs) ==
    IF FixedOverflow(b, Len(bs)) THEN {[b |-> b, err |-> ErrOverflow]}
    ELSE {[b |-> nb, err |-> NoErr] : nb \in BufWrite(b, bs)}

\* The guard of Write: w.buffer.Cap() < len(v)+2.
BytesOverflow(b, v) == BufCap(b) < Len(v) + 2

\* Write(v) into buffer b: the uint16 length, then the bytes.
WriteBytes(b, v) ==
    IF BytesOverflow(b, v) THEN {[b |-> b, err |-> ErrOverflow]}
    ELSE {[b |-> nb, err |-> NoErr] :
            nb \in UNION {BufWrite(lb, v) : lb \in BufWrite(b, PutUint16(Len(v) % 65536))}}

\* protocolWrite, when the protocol has a hash: its error is dropped.
ProtocolWrite(b) ==
    IF protocol.Hash # Zero64
    THEN {o.b : o \in WriteFixed(b, PutUint64(protocol.Hash))}
    ELSE {b}

\* SequenceWrite writing the counter as it was before e.incr().
SequenceWriteBeforeIncr(b) ==
    IF protocol.Sequenced
    THEN {o.b : o \in WriteFixed(b, PutUint64(sequence))}
    ELSE {b}

\* sequenceWrite, when the protocol is sequenced: e.incr(), then the write
\* of e.LastSequence(), whose error is dropped.
SequenceWrite(b) ==
    IF protocol.Sequenced
    THEN {o.b : o \in WriteFixed(b, PutUint64(Incr64(sequence)))}
    ELSE {b}

\* e.Writer(): a writer and a buffer from their pools, then the header.
Writer ==
    /\ CanCall
    /\ hist' = [Called EXCEPT !.acq = @ + 1]
    /\ \E w \in PoolNext(wpool, DOMAIN writers) \cap WriterIds :
       \E b \in PoolNext(bpool, DOMAIN bufs) :
       \E b0 \in (IF b \in bpool THEN {bufs[b]} ELSE NewBuffers(protocol.Payload)) :
       \E b1 \in ProtocolWrite(b0) :
       \E b2 \in SequenceWrite(b1) :
          /\ writers' = [x \in DOMAIN writers \cup {w} |->
                           IF x = w THEN [buffer |-> b, log |-> <<>>] ELSE writers[x]]
          /\ wpool' = wpool \ {w}
          /\ wheld' = wheld \cup {w}
          /\ bpool' = bpool \ {b}
          /\ bufs' = [x \in DOMAIN bufs \cup {b} |-> IF x = b THEN b2 ELSE bufs[x]]
          /\ last' = Result("Writer", w, NoErr, None)
    /\ sequence' = IF protocol.Sequenced THEN Incr64(sequence) ELSE sequence
    /\ UNCHANGED <<tasks, args, status, conn, released, readers, net>>

\* The bodies of the write methods after the closed check, on buffer b.
EncUint16(v, b) == WriteFixed(b, PutUint16(v))
EncUint64(v, b) == WriteFixed(b, PutUint64(v))
EncInt64(v, b) == WriteFixed(b, PutUint64(Int64ToUint64(v)))
EncFloat64(v, b) == WriteFixed(b, PutUint64(Float64bits(v)))
Encode(val, b) ==
    CASE val.t = "uint16" -> EncUint16(val.v, b)
      [] val.t = "uint64" -> EncUint64(val.v, b)
      [] val.t = "int64" -> EncInt64(val.v, b)
      [] val.t = "float64" -> EncFloat64(val.v, b)
      [] val.t = "bytes" -> WriteBytes(b, val.v)

\* A write through writer w of value val: the closed check, then the write
\* into w.buffer.
WriterCall(op, w, val) ==
    /\ CanCall
    /\ hist' = Called
    /\ w \in wheld
    /\ IF writers[w].buffer = NIL
       THEN /\ last' = Result(op, w, ErrClosedWriter, val)
            /\ UNCHANGED <<bufs, writers>>
       ELSE /\ \E o \in Encode(val, bufs[writers[w].buffer]) :
                 /\ bufs' = [bufs EXCEPT ![writers[w].buffer] = o.b]
                 /\ writers' = [writers EXCEPT ![w].log =
                                  IF o.err = NoErr THEN Append(@, val) ELSE @]
                 /\ last' = Result(op, w, o.err, val)
    /\ UNCHANGED <<tasks, args, status, conn, sequence, bpool, wpool, wheld, released,
                   readers, net>>

WriteUint16(w, v) == WriterCall("WriteUint16", w, Val("uint16", v))
WriteUint64(w, v) == WriterCall("WriteUint64", w, Val("uint64", v))
WriteInt64(w, v) == WriterCall("WriteInt64", w, Val("int64", v))
WriteFloat64(w, v) == WriterCall("WriteFloat64", w, Val("float64", v))
Write(w, v) == WriterCall("Write", w, Val("bytes", v))

\* Remaining with a closed check that returns 0 for a released writer.
RemainingCallChecked(w) ==
    /\ CanCall
    /\ hist' = Called
    /\ w \in wheld
    /\ status' = status
    /\ last' = Result("Remaining", w, NoErr,
                      Val("int", IF writers[w].buffer = NIL THEN 0
                                 ELSE Remaining(bufs[writers[w].buffer])))
    /\ UNCHANGED <<tasks, args, conn, sequence, bufs, bpool, writers, wpool, wheld,
                   released, readers, net>>

\* w.Remaining(): dereferences w.buffer without a closed check.
RemainingCall(w) ==
    /\ CanCall
    /\ hist' = Called
    /\ w \in wheld
    /\ IF writers[w].buffer = NIL
       THEN /\ status' = "panic"
            /\ last' = Result("Remaining", w, "nil pointer dereference", None)
       ELSE /\ status' = status
            /\ last' = Result("Remaining", w, NoErr,
                              Val("int", Remaining(bufs[writers[w].buffer])))
    /\ UNCHANGED <<tasks, args, conn, sequence, bufs, bpool, writers, wpool, wheld,
                   released, readers, net>>

\* A caller lets go of its reference to writer w; an object no caller and no
\* pool refers to is garbage.
DropWriter(w) ==
    /\ CanCall
    /\ hist' = Called
    /\ w \in wheld
    /\ wheld' = wheld \ {w}
    /\ writers' = [x \in wheld' \cup wpool |-> writers[x]]
    /\ released' = released \cap DOMAIN writers'
    /\ bufs' = Collect(bufs, bpool, writers', readers)
    /\ last' = Result("DropWriter", w, NoErr, None)
    /\ UNCHANGED <<tasks, args, status, conn, sequence, bpool, wpool, readers, net>>

\* ------------------------------------------------------------------------
\* Endpoint: sequence, Send, Receive, Close.
\* ------------------------------------------------------------------------
LastSequence ==
    /\ CanCall
    /\ hist' = Called
    /\ last' = Result("LastSequence", NIL, NoErr, Val("uint64", sequence))
    /\ UNCHANGED <<tasks, args, status, conn, sequence, bufs, bpool, writers, wpool,
                   wheld, released, readers, net>>

\* SetSequence storing the value after seq.
SetSequenceNext(seq) ==
    /\ CanCall
    /\ hist' = [Called EXCEPT !.set = TRUE]
    /\ sequence' = Incr64(seq)
    /\ last' = Result("SetSequence", NIL, NoErr, Val("uint64", seq))
    /\ UNCHANGED <<tasks, args, status, conn, bufs, bpool, writers, wpool, wheld,
                   released, readers, net>>

SetSequence(seq) ==
    /\ CanCall
    /\ hist' = [Called EXCEPT !.set = TRUE]
    /\ sequence' = seq
    /\ last' = Result("SetSequence", NIL, NoErr, Val("uint64", seq))
    /\ UNCHANGED <<tasks, args, status, conn, bufs, bpool, writers, wpool, wheld,
                   released, readers, net>>

\* A datagram on the wire: its bytes and where it comes from; log (the
\* values written into it) and n (the ordinal of its Send) are history.
Datagram(data, from, log, n) == [data |-> data, from |-> from, log |-> log, n |-> n]

\* Send recycling the buffer and the writer when the socket write fails too.
SendRecyclesOnFailure(w, addr, timeout, sendOk) ==
    /\ CanCall
    /\ w \in wheld
    /\ IF timeout > 0 /\ conn # "open"
       THEN /\ last' = Result("Send", w, ErrTransport, None)
            /\ hist' = Called
            /\ UNCHANGED <<status, bufs, bpool, writers, wpool, released, net>>
       ELSE IF writers[w].buffer = NIL
       THEN /\ status' = "panic"
            /\ last' = Result("Send", w, "nil pointer dereference", None)
            /\ hist' = Called
            /\ UNCHANGED <<bufs, bpool, writers, wpool, released, net>>
       ELSE LET b == writers[w].buffer
                data == BufBytes(bufs[b])
                ok == ~(conn # "open" \/ ~sendOk \/ Len(data) > MaxPayload)
            IN  /\ net' = IF ok /\ addr = "self" /\ Len(net) < MaxNet
                          THEN Append(net, Datagram(data, "self", writers[w].log,
                                                    hist.sent + 1))
                          ELSE net
                /\ bpool' = PoolRecycle(bpool, args.pool, b)
                /\ wpool' = PoolRecycle(wpool, args.pool, w)
                /\ writers' = [writers EXCEPT ![w] = WriterReset(@)]
                /\ bufs' = Collect([bufs EXCEPT ![b] = BufferReset(@)], bpool',
                                   writers', readers)
                /\ released' = IF ok THEN released \cup {w} ELSE released
                /\ hist' = IF ok THEN [Called EXCEPT !.sent = @ + 1] ELSE Called
                /\ last' = Result("Send", w, IF ok THEN NoErr ELSE ErrTransport, None)
                /\ status' = status
    /\ UNCHANGED <<tasks, args, conn, sequence, wheld, readers>>

\* e.Send(writer, address, timeout).  sendOk is the socket's verdict.  A
\* datagram sent to the endpoint's own address is queued for its socket
\* unless the socket buffer is full, when UDP drops it.
Send(w, addr, timeout, sendOk) ==
    /\ CanCall
    /\ w \in wheld
    /\ IF timeout > 0 /\ conn # "open"
       THEN /\ last' = Result("Send", w, ErrTransport, None)
            /\ hist' = Called
            /\ UNCHANGED <<status, bufs, bpool, writers, wpool, released, net>>
       ELSE IF writers[w].buffer = NIL
       THEN /\ status' = "panic"
            /\ last' = Result("Send", w, "nil pointer dereference", None)
            /\ hist' = Called
            /\ UNCHANGED <<bufs, bpool, writers, wpool, released, net>>
       ELSE LET b == writers[w].buffer
                data == BufBytes(bufs[b])
            IN  IF conn # "open" \/ ~sendOk \/ Len(data) > MaxPayload
                THEN /\ last' = Result("Send", w, ErrTransport, None)
                     /\ hist' = Called
                     /\ UNCHANGED <<status, bufs, bpool, writers, wpool, released, net>>
                ELSE /\ net' = IF addr = "self" /\ Len(net) < MaxNet
                               THEN Append(net, Datagram(data, "self", writers[w].log,
                                                         hist.sent + 1))
                               ELSE net
                     /\ bpool' = PoolRecycle(bpool, args.pool, b)
                     /\ wpool' = PoolRecycle(wpool, args.pool, w)
                     /\ writers' = [writers EXCEPT ![w] = WriterReset(@)]
                     /\ bufs' = Collect([bufs EXCEPT ![b] = BufferReset(@)], bpool',
                                        writers', readers)
                     /\ released' = released \cup {w}
                     /\ hist' = [Called EXCEPT !.sent = @ + 1]
                     /\ last' = Result("Send", w, NoErr, None)
                     /\ status' = status
    /\ UNCHANGED <<tasks, args, conn, sequence, wheld, readers>>

\* ReadFromUDP without the Truncate(n) after it.
ReadFromUDPKeepsLength(b, data) ==
    LET n == Min(Len(data), BufLen(b))
    IN  [b EXCEPT !.buf = SubSeq(@, 1, b.off) \o SubSeq(data, 1, n)
                            \o SubSeq(@, b.off + n + 1, Len(@))]

\* c.ReadFromUDP(bx) followed by buffer.Truncate(n): the first n bytes of the
\* slice b.Bytes() are overwritten with the datagram's, n the smaller length.
ReadFromUDP(b, data) ==
    LET n == Min(Len(data), BufLen(b))
    IN  BufTruncate([b EXCEPT !.buf = SubSeq(@, 1, b.off) \o SubSeq(data, 1, n)
                                        \o SubSeq(@, b.off + n + 1, Len(@))], n)

\* ProtocolRead without the comparison.
ProtocolReadAnyHash(b) ==
    LET r == ReadFull(b, 8)
    IN  [b |-> r.b, err |-> r.err, ok |-> r.err = NoErr]

\* protocolRead: the hash is read with ReadUint64 and compared.
ProtocolRead(b) ==
    LET r == ReadFull(b, 8)
    IN  [b |-> r.b, err |-> r.err,
         ok |-> r.err = NoErr /\ Uint64(r.data) = protocol.Hash]

\* sequenceRead: ReadUint64.
SequenceRead(b) ==
    LET r == ReadFull(b, 8)
    IN  [b |-> r.b, err |-> r.err,
         seq |-> IF r.err = NoErr THEN Uint64(r.data) ELSE Zero64]

\* Receive recycling its buffer when the socket read fails.
ReceiveRecyclesOnError(timeout) ==
    /\ CanCall
    /\ hist' = Called
    /\ (conn = "open" /\ net = << >>) => timeout > 0
    /\ IF timeout > 0 /\ conn # "open"
       THEN /\ last' = Result("Receive", NIL, ErrTransport, None)
            /\ UNCHANGED <<bufs, bpool, readers, net>>
       ELSE \E b \in PoolNext(bpool, DOMAIN bufs) :
            \E b0 \in (IF b \in bpool THEN {bufs[b]} ELSE NewBuffers(protocol.Payload)) :
            \E b1 \in BufWrite(b0, Zero) :
              /\ bpool' = IF conn # "open" \/ net = << >>
                          THEN PoolRecycle(bpool \ {b}, args.pool, b)
                          ELSE bpool \ {b}
              /\ IF conn # "open" \/ net = << >>
                 THEN /\ last' = Result("Receive", NIL, ErrTransport, None)
                      /\ UNCHANGED <<readers, net>>
                      /\ bufs' = Collect([x \in DOMAIN bufs \cup {b} |->
                                            IF x = b THEN BufferReset(b1) ELSE bufs[x]],
                                         bpool', writers, readers)
                 ELSE LET d == Head(net)
                          b2 == ReadFromUDP(b1, d.data)
                          p == IF protocol.Hash # Zero64 THEN ProtocolRead(b2)
                               ELSE [b |-> b2, err |-> NoErr, ok |-> TRUE]
                          q == IF protocol.Sequenced THEN SequenceRead(p.b)
                               ELSE [b |-> p.b, err |-> NoErr, seq |-> Zero64]
                      IN  /\ net' = Tail(net)
                          /\ IF p.err # NoErr \/ ~p.ok
                             THEN /\ last' = Result("Receive", NIL, p.err, Val("uint64", Zero64))
                                  /\ readers' = readers
                                  /\ bufs' = Collect(bufs, bpool', writers, readers)
                             ELSE \E r \in {FreshId(DOMAIN readers)} \cap ReaderIds :
                                  /\ readers' = [x \in DOMAIN readers \cup {r} |->
                                         IF x = r
                                         THEN [buffer |-> b, log |-> d.log, k |-> 0,
                                               aligned |-> q.err = NoErr, n |-> d.n]
                                         ELSE readers[x]]
                                  /\ bufs' = [x \in DOMAIN bufs \cup {b} |->
                                                IF x = b THEN q.b ELSE bufs[x]]
                                  /\ last' = [Result("Receive", r, q.err, Val("uint64", q.seq))
                                                EXCEPT !.addr = d.from]
    /\ UNCHANGED <<tasks, args, status, conn, sequence, writers, wpool, wheld, released>>

\* e.Receive(timeout).  With no deadline the call blocks until a datagram
\* arrives or the socket is closed.
Receive(timeout) ==
    /\ CanCall
    /\ hist' = Called
    /\ (conn = "open" /\ net = << >>) => timeout > 0
    /\ IF timeout > 0 /\ conn # "open"
       THEN /\ last' = Result("Receive", NIL, ErrTransport, None)
            /\ UNCHANGED <<bufs, bpool, readers, net>>
       ELSE \E b \in PoolNext(bpool, DOMAIN bufs) :
            \E b0 \in (IF b \in bpool THEN {bufs[b]} ELSE NewBuffers(protocol.Payload)) :
            \E b1 \in BufWrite(b0, Zero) :
              /\ bpool' = bpool \ {b}
              /\ IF conn # "open" \/ net = << >>
                 THEN /\ last' = Result("Receive", NIL, ErrTransport, None)
                      /\ UNCHANGED <<readers, net>>
                      /\ bufs' = Collect(bufs, bpool', writers, readers)
                 ELSE LET d == Head(net)
                          b2 == ReadFromUDP(b1, d.data)
                          p == IF protocol.Hash # Zero64 THEN ProtocolRead(b2)
                               ELSE [b |-> b2, err |-> NoErr, ok |-> TRUE]
                          q == IF protocol.Sequenced THEN SequenceRead(p.b)
                               ELSE [b |-> p.b, err |-> NoErr, seq |-> Zero64]
                      IN  /\ net' = Tail(net)
                          /\ IF p.err # NoErr \/ ~p.ok
                             THEN /\ last' = Result("Receive", NIL, p.err, Val("uint64", Zero64))
                                  /\ readers' = readers
                                  /\ bufs' = Collect(bufs, bpool', writers, readers)
                             ELSE \E r \in {FreshId(DOMAIN readers)} \cap ReaderIds :
                                  /\ readers' = [x \in DOMAIN readers \cup {r} |->
                                         IF x = r
                                         THEN [buffer |-> b, log |-> d.log, k |-> 0,
                                               aligned |-> q.err = NoErr, n |-> d.n]
                                         ELSE readers[x]]
                                  /\ bufs' = [x \in DOMAIN bufs \cup {b} |->
                                                IF x = b THEN q.b ELSE bufs[x]]
                                  /\ last' = [Result("Receive", r, q.err, Val("uint64", q.seq))
                                                EXCEPT !.addr = d.from]
    /\ UNCHANGED <<tasks, args, status, conn, sequence, writers, wpool, wheld, released>>

\* e.Close(): closes the socket.
CloseEndpoint ==
    /\ CanCall
    /\ hist' = Called
    /\ conn' = "closed"
    /\ last' = Result("Endpoint.Close", NIL,
                      IF conn = "open" THEN NoErr ELSE ErrTransport, None)
    /\ UNCHANGED <<tasks, args, status, sequence, bufs, bpool, writers, wpool, wheld,
                   released, readers, net>>

\* A datagram from a process that is not this endpoint arrives.
Stranger(data) ==
    /\ CanCall
    /\ hist' = Called
    /\ conn = "open"
    /\ Len(net) < MaxNet
    /\ net' = Append(net, Datagram(data, "stranger", << >>, 0))
    /\ last' = Result("stranger", NIL, NoErr, None)
    /\ UNCHANGED <<tasks, args, status, conn, sequence, bufs, bpool, writers, wpool,
                   wheld, released, readers>>

\* ------------------------------------------------------------------------
\* Reader.
\* ------------------------------------------------------------------------
\* The zero value of each type.
ZeroOf(t) ==
    CASE t = "uint16" -> 0
      [] t = "uint64" -> Zero64
      [] t = "int64" -> Uint64ToInt64(Zero64)
      [] t = "float64" -> Float64frombits(Zero64)
      [] t = "bytes" -> << >>

\* Read(): the uint16 length, the bound on it, then one Read into a slice of
\* that length.
ReadBytes(b) ==
    LET l == ReadFull(b, 2)
        length == Uint16(l.data)
        r == BufRead(l.b, length)
    IN  IF l.err # NoErr THEN [b |-> l.b, err |-> l.err, v |-> << >>]
        ELSE IF length > MaxPayload THEN [b |-> l.b, err |-> ErrOverflow, v |-> << >>]
        ELSE [b |-> r.b, err |-> r.err, v |-> r.data \o Zeros(length - Len(r.data))]

\* binary.Read of a fixed-width value from reader buffer b: the value stays
\* zero when ReadFull fails.
DecUint16(b) ==
    LET r == ReadFull(b, 2)
    IN  [b |-> r.b, err |-> r.err,
         v |-> IF r.err = NoErr THEN Uint16(r.data) ELSE ZeroOf("uint16")]
DecUint64(b) ==
    LET r == ReadFull(b, 8)
    IN  [b |-> r.b, err |-> r.err,
         v |-> IF r.err = NoErr THEN Uint64(r.data) ELSE ZeroOf("uint64")]
DecInt64(b) ==
    LET r == ReadFull(b, 8)
    IN  [b |-> r.b, err |-> r.err,
         v |-> IF r.err = NoErr THEN Uint64ToInt64(Uint64(r.data)) ELSE ZeroOf("int64")]
DecFloat64(b) ==
    LET r == ReadFull(b, 8)
    IN  [b |-> r.b, err |-> r.err,
         v |-> IF r.err = NoErr THEN Float64frombits(Uint64(r.data))
               ELSE ZeroOf("float64")]
Decode(t, b) ==
    CASE t = "uint16" -> DecUint16(b)
      [] t = "uint64" -> DecUint64(b)
      [] t = "int64" -> DecInt64(b)
      [] t = "float64" -> DecFloat64(b)
      [] t = "bytes" -> ReadBytes(b)

\* A read of type t through reader r: the closed check, then the read from
\* r.buffer.
ReaderCall(op, r, t) ==
    /\ CanCall
    /\ hist' = Called
    /\ r \in DOMAIN readers
    /\ IF readers[r].buffer = NIL
       THEN /\ last' = Result(op, r, ErrClosedReader, Val(t, ZeroOf(t)))
            /\ UNCHANGED <<bufs, readers>>
       ELSE LET o == Decode(t, bufs[readers[r].buffer])
                k == readers[r].k
                log == readers[r].log
                al == readers[r].aligned /\ k < Len(log) /\ log[k + 1].t = t
                         /\ o.err = NoErr
            IN  /\ bufs' = [bufs EXCEPT ![readers[r].buffer] = o.b]
                /\ readers' = [readers EXCEPT
                      ![r].k = IF al THEN @ + 1 ELSE 0,
                      ![r].aligned = al]
                /\ last' = Result(op, r, o.err, Val(t, o.v))
    /\ UNCHANGED <<tasks, args, status, conn, sequence, bpool, writers, wpool, wheld,
                   released, net>>

ReadUint16(r) == ReaderCall("ReadUint16", r, "uint16")
ReadUint64(r) == ReaderCall("ReadUint64", r, "uint64")
ReadInt64(r) == ReaderCall("ReadInt64", r, "int64")
ReadFloat64(r) == ReaderCall("ReadFloat64", r, "float64")
Read(r) == ReaderCall("Read", r, "bytes")

\* Close that recycles the buffer and keeps the reader's reference to it.
CloseKeepsBuffer(r) ==
    /\ CanCall
    /\ hist' = Called
    /\ r \in DOMAIN readers
    /\ readers[r].buffer # NIL
    /\ bpool' = PoolRecycle(bpool, args.pool, readers[r].buffer)
    /\ bufs' = [bufs EXCEPT ![readers[r].buffer] = BufferReset(@)]
    /\ last' = Result("Close", r, NoErr, None)
    /\ UNCHANGED <<tasks, args, status, conn, sequence, writers, wpool, wheld, released,
                   readers, net>>

\* r.Close(): the buffer goes back to the endpoint's pool.
Close(r) ==
    /\ CanCall
    /\ hist' = Called
    /\ r \in DOMAIN readers
    /\ IF readers[r].buffer = NIL
       THEN /\ last' = Result("Close", r, ErrClosedReader, None)
            /\ UNCHANGED <<bufs, bpool, readers>>
       ELSE LET b == readers[r].buffer
            IN  /\ bpool' = PoolRecycle(bpool, args.pool, b)
                /\ readers' = [readers EXCEPT ![r].buffer = NIL]
                /\ bufs' = Collect([bufs EXCEPT ![b] = BufferReset(@)], bpool',
                                   writers, readers')
                /\ last' = Result("Close", r, NoErr, None)
    /\ UNCHANGED <<tasks, args, status, conn, sequence, writers, wpool, wheld, released, net>>

\* A caller lets go of its reference to reader r.
DropReader(r) ==
    /\ CanCall
    /\ hist' = Called
    /\ r \in DOMAIN readers
    /\ readers' = [x \in DOMAIN readers \ {r} |-> readers[x]]
    /\ bufs' = Collect(bufs, bpool, writers, readers')
    /\ last' = Result("DropReader", r, NoErr, None)
    /\ UNCHANGED <<tasks, args, status, conn, sequence, bpool, writers, wpool, wheld,
                   released, net>>

\* ------------------------------------------------------------------------
\* The running endpoint.
\* ------------------------------------------------------------------------
Init ==
    /\ args \in RunArgs
    /\ PanicReason(args) = "none"
    /\ status = "ok"
    /\ conn = "open"
    /\ sequence = Zero64
    /\ bufs = << >>
    /\ bpool = {}
    /\ writers = << >>
    /\ wpool = {}
    /\ wheld = {}
    /\ released = {}
    /\ hist = NoHistory
    /\ readers = << >>
    /\ net = << >>
    /\ tasks = NoTasks
    /\ last = Result("NewEndpoint", NIL, NoErr, None)

Next ==
    \/ Writer
    \/ \E w \in WriterIds, v \in U16Vals : WriteUint16(w, v)
    \/ \E w \in WriterIds, v \in U64Vals : WriteUint64(w, v)
    \/ \E w \in WriterIds, v \in I64Vals : WriteInt64(w, v)
    \/ \E w \in WriterIds, v \in F64Vals : WriteFloat64(w, v)
    \/ \E w \in WriterIds, v \in ByteStrs(protocol.Payload) : Write(w, v)
    \/ \E w \in WriterIds : RemainingCall(w)
    \/ \E w \in WriterIds : DropWriter(w)
    \/ LastSequence
    \/ \E seq \in SeqVals : SetSequence(seq)
    \/ \E w \in WriterIds, a \in Addrs, t \in Timeouts, ok \in BOOLEAN : Send(w, a, t, ok)
    \/ \E t \in Timeouts : Receive(t)
    \/ CloseEndpoint
    \/ \E d \in StrangerData : Stranger(d)
    \/ \E r \in ReaderIds : ReadUint16(r)
    \/ \E r \in ReaderIds : ReadUint64(r)
    \/ \E r \in ReaderIds : ReadInt64(r)
    \/ \E r \in ReaderIds : ReadFloat64(r)
    \/ \E r \in ReaderIds : Read(r)
    \/ \E r \in ReaderIds : Close(r)
    \/ \E r \in ReaderIds : DropReader(r)

Spec == Init /\ [][Next]_vars

\* ------------------------------------------------------------------------
\* Two tasks calling e.Writer() at once.  The pools are safe for concurrent
\* use; e.sequence is a plain uint64 field, so e.incr() is a load and a
\* store, e.LastSequence() another load, and nothing orders them between
\* tasks.  On a 32-bit build each of them moves the word in two halves.
\* ------------------------------------------------------------------------
TaskIds == {1, 2}
ConcProtocols == {Proto(Zero64, TRUE, 64), Proto(Hash1, TRUE, 64), Proto(Zero64, TRUE, 16)}
ConcStarts == {Zero64, <<0, 0, 0, 65535>>, Max64}

\* The low and the high 32 bits of u over those of v.
LowOf(u, v) == <<v[1], v[2], u[3], u[4]>>
HighOf(u, v) == <<u[1], u[2], v[3], v[4]>>

\* The pcs at which a task is between the first load of e.incr() and the
\* write of the stamp.
InSection == {"loadHi", "store", "storeHi", "stamp", "stampHi", "write"}

\* Task t moves to pc, with its register set to reg; overlap records that
\* it did so while the other task was inside its section.
TaskStep(t, pc, reg, inside) ==
    [tasks EXCEPT !.pc[t] = pc, !.reg[t] = reg,
                  !.overlap = @ \/ (inside /\ \E u \in TaskIds \ {t} :
                                                 tasks.pc[u] \in InSection)]

\* w := e.writers.Next(); w.buffer = e.buffers.Next().
TaskAcquire(t) ==
    /\ tasks.pc[t] = "idle"
    /\ \E w \in PoolNext(wpool, DOMAIN writers) \cap WriterIds :
       \E b \in PoolNext(bpool, DOMAIN bufs) :
       \E b0 \in (IF b \in bpool THEN {bufs[b]} ELSE NewBuffers(protocol.Payload)) :
          /\ writers' = [x \in DOMAIN writers \cup {w} |->
                           IF x = w THEN [buffer |-> b, log |-> <<>>] ELSE writers[x]]
          /\ wpool' = wpool \ {w}
          /\ bpool' = bpool \ {b}
          /\ bufs' = [x \in DOMAIN bufs \cup {b} |-> IF x = b THEN b0 ELSE bufs[x]]
          /\ tasks' = [TaskStep(t, "header", tasks.reg[t], FALSE) EXCEPT !.w[t] = w]
    /\ UNCHANGED <<args, status, conn, sequence, wheld, released, hist, readers,
                   net, last>>

\* if e.protocol.Hash > 0 { protocolWrite(e.protocol, w) }
TaskProtocolWrite(t) ==
    /\ tasks.pc[t] = "header"
    /\ \E b1 \in ProtocolWrite(bufs[writers[tasks.w[t]].buffer]) :
          bufs' = [bufs EXCEPT ![writers[tasks.w[t]].buffer] = b1]
    /\ tasks' = TaskStep(t, IF protocol.Sequenced THEN "load" ELSE "return",
                         tasks.reg[t], FALSE)
    /\ UNCHANGED <<args, status, conn, sequence, bpool, writers, wpool, wheld,
                   released, hist, readers, net, last>>

\* e.incr(): the load of e.sequence, whole or its low half first.
TaskIncrLoad(t, whole) ==
    /\ tasks.pc[t] = "load"
    /\ tasks' = IF whole THEN TaskStep(t, "store", sequence, TRUE)
                ELSE TaskStep(t, "loadHi", LowOf(sequence, tasks.reg[t]), TRUE)
    /\ UNCHANGED <<args, status, conn, sequence, bufs, bpool, writers, wpool,
                   wheld, released, hist, readers, net, last>>

TaskIncrLoadHi(t) ==
    /\ tasks.pc[t] = "loadHi"
    /\ tasks' = TaskStep(t, "store", HighOf(sequence, tasks.reg[t]), TRUE)
    /\ UNCHANGED <<args, status, conn, sequence, bufs, bpool, writers, wpool,
                   wheld, released, hist, readers, net, last>>

\* e.incr(): the store of the incremented value, whole or its low half first.
TaskIncrStore(t, whole) ==
    /\ tasks.pc[t] = "store"
    /\ IF whole
       THEN /\ sequence' = Incr64(tasks.reg[t])
            /\ tasks' = TaskStep(t, "stamp", tasks.reg[t], TRUE)
       ELSE /\ sequence' = LowOf(Incr64(tasks.reg[t]), sequence)
            /\ tasks' = TaskStep(t, "storeHi", tasks.reg[t], TRUE)
    /\ UNCHANGED <<args, status, conn, bufs, bpool, writers, wpool, wheld,
                   released, hist, readers, net, last>>

TaskIncrStoreHi(t) ==
    /\ tasks.pc[t] = "storeHi"
    /\ sequence' = HighOf(Incr64(tasks.reg[t]), sequence)
    /\ tasks' = TaskStep(t, "stamp", tasks.reg[t], TRUE)
    /\ UNCHANGED <<args, status, conn, bufs, bpool, writers, wpool, wheld,
                   released, hist, readers, net, last>>

\* endpoint.LastSequence(): the load of e.sequence, whole or its low half
\* first.
TaskLastSequence(t, whole) ==
    /\ tasks.pc[t] = "stamp"
    /\ tasks' = IF whole THEN TaskStep(t, "write", sequence, TRUE)
                ELSE TaskStep(t, "stampHi", LowOf(sequence, tasks.reg[t]), TRUE)
    /\ UNCHANGED <<args, status, conn, sequence, bufs, bpool, writers, wpool,
                   wheld, released, hist, readers, net, last>>

TaskLastSequenceHi(t) ==
    /\ tasks.pc[t] = "stampHi"
    /\ tasks' = TaskStep(t, "write", HighOf(sequence, tasks.reg[t]), TRUE)
    /\ UNCHANGED <<args, status, conn, sequence, bufs, bpool, writers, wpool,
                   wheld, released, hist, readers, net, last>>

\* A stamp one above what LastSequence() returned.
TaskStampValueNext(t) == Incr64(tasks.reg[t])

\* The value sequenceWrite stamps: the one LastSequence() returned.
TaskStampValue(t) == tasks.reg[t]

\* writer.WriteUint64(...) of that value; its error is dropped.
TaskStamp(t) ==
    /\ tasks.pc[t] = "write"
    /\ \E o \in WriteFixed(bufs[writers[tasks.w[t]].buffer],
                          PutUint64(TaskStampValue(t))) :
          bufs' = [bufs EXCEPT ![writers[tasks.w[t]].buffer] = o.b]
    /\ tasks' = TaskStep(t, "return", tasks.reg[t], FALSE)
    /\ UNCHANGED <<args, status, conn, sequence, bpool, writers, wpool, wheld,
                   released, hist, readers, net, last>>

\* return w.
TaskReturn(t) ==
    /\ tasks.pc[t] = "return"
    /\ wheld' = wheld \cup {tasks.w[t]}
    /\ hist' = [hist EXCEPT !.calls = @ + 1, !.acq = @ + 1]
    /\ last' = Result("Writer", tasks.w[t], NoErr, None)
    /\ tasks' = TaskStep(t, "done", tasks.reg[t], FALSE)
    /\ UNCHANGED <<args, status, conn, sequence, bufs, bpool, writers, wpool,
                   released, readers, net>>

InitConc ==
    /\ args \in [hasProtocol : {TRUE}, protocol : ConcProtocols, port : {0}, pool : {1}]
    /\ status = "ok"
    /\ conn = "open"
    /\ sequence \in ConcStarts
    /\ bufs = << >>
    /\ bpool = {}
    /\ writers = << >>
    /\ wpool = {}
    /\ wheld = {}
    /\ released = {}
    /\ hist = NoHistory
    /\ readers = << >>
    /\ net = << >>
    /\ last = Result("NewEndpoint", NIL, NoErr, None)
    /\ tasks = [pc |-> [t \in TaskIds |-> "idle"],
                reg |-> [t \in TaskIds |-> Zero64],
                w |-> [t \in TaskIds |-> NIL],
                start |-> sequence,
                overlap |-> FALSE]

NextConc ==
    \E t \in TaskIds :
        \/ TaskAcquire(t)
        \/ TaskProtocolWrite(t)
        \/ \E whole \in BOOLEAN : TaskIncrLoad(t, whole)
        \/ TaskIncrLoadHi(t)
        \/ \E whole \in BOOLEAN : TaskIncrStore(t, whole)
        \/ TaskIncrStoreHi(t)
        \/ \E whole \in BOOLEAN : TaskLastSequence(t, whole)
        \/ TaskLastSequenceHi(t)
        \/ TaskStamp(t)
        \/ TaskReturn(t)

SpecConc == InitConc /\ [][NextConc]_vars

\* ------------------------------------------------------------------------
\* Properties.
\* ------------------------------------------------------------------------
FixedWriteOps == {"WriteUint16", "WriteUint64", "WriteInt64", "WriteFloat64"}
WriteOps == FixedWriteOps \cup {"Write"}
ReadOps == {"ReadUint16", "ReadUint64", "ReadInt64", "ReadFloat64", "Read"}
ReaderOps == ReadOps \cup {"Close"}

\* The uint64 of a small natural number.
FromNat(n) == <<0, 0, n \div 65536, n % 65536>>

\* The size of the header the protocol descriptor asks for.
HeaderSize ==
    (IF protocol.Hash # Zero64 THEN 8 ELSE 0) + (IF protocol.Sequenced THEN 8 ELSE 0)

\* The header a writer acquired in this state should hold.
ExpectedHeader ==
    (IF protocol.Hash # Zero64 THEN PutUint64(protocol.Hash) ELSE << >>)
        \o (IF protocol.Sequenced THEN PutUint64(sequence) ELSE << >>)

\* The sequence number in the header of a sequenced datagram.
StampOf(data) ==
    LET at == IF protocol.Hash # Zero64 THEN 8 ELSE 0
    IN  Uint64(SubSeq(data, at + 1, at + 8))

\* The arguments C1 calls invalid.
InvalidArgs ==
    \/ args.protocol.Payload = 0
    \/ args.protocol.Payload > 65507
    \/ (args.protocol.Hash # Zero64 /\ args.protocol.Payload < 8)
    \/ args.port < 0
    \/ args.pool < 1

\* C1: NewEndpoint panics, with no socket bound, exactly when the payload is
\* 0 or above 65507, or the hash is non-zero and the payload below 8, or the
\* port is negative, or the pool size below 1 (given a non-nil protocol).
C1_ConstructionValidates ==
    (last.op = "NewEndpoint" /\ args.hasProtocol)
        => /\ (status = "panic") <=> InvalidArgs
           /\ status = "panic" => conn = "nil"

\* C1 witness: a payload of 65508 with a valid port and pool made it panic.
C1_Witness ==
    /\ last.op = "NewEndpoint"
    /\ status = "panic"
    /\ args.hasProtocol
    /\ args.protocol.Payload = 65508
    /\ args.port >= 0
    /\ args.pool >= 1

\* C2: the writer Writer() returns holds exactly the header (the hash iff it
\* is non-zero, then the sequence number iff sequenced), and its Remaining()
\* is the payload size minus the header size.
C2_FreshWriterHoldsHeader ==
    last.op = "Writer"
        => LET b == bufs[writers[last.id].buffer]
           IN  /\ BufBytes(b) = ExpectedHeader
               /\ Remaining(b) = protocol.Payload - HeaderSize

\* C3: on an open writer a fixed-width write of size 2 or 8 succeeds and
\* takes exactly its size off Remaining() when Remaining() >= size, and
\* otherwise fails with the overflow error and leaves the buffer as it was.
C3_FixedWidthWrites ==
    [][\A w \in WriterIds :
        (/\ last'.op \in FixedWriteOps
         /\ last'.id = w
         /\ hist'.calls = hist.calls + 1
         /\ w \in wheld
         /\ writers[w].buffer # NIL)
        => LET b == bufs[writers[w].buffer]
               nb == bufs'[writers'[w].buffer]
               size == IF last'.op = "WriteUint16" THEN 2 ELSE 8
           IN  IF Remaining(b) >= size
               THEN /\ last'.err = NoErr
                    /\ Remaining(nb) = Remaining(b) - size
               ELSE /\ last'.err = ErrOverflow
                    /\ nb = b]_vars

\* C3 witness: WriteFloat64 failed with overflow on a writer with 4 bytes
\* remaining.
C3_Witness ==
    /\ last.op = "WriteFloat64"
    /\ last.err = ErrOverflow
    /\ last.id \in wheld
    /\ writers[last.id].buffer # NIL
    /\ Remaining(bufs[writers[last.id].buffer]) = 4

\* C4: Write(v) on an open writer succeeds only when len(v)+2 <= Remaining()
\* and otherwise fails with the overflow error and leaves the buffer as it
\* was.
C4_WriteFitsRemaining ==
    [][\A w \in WriterIds :
        (/\ last'.op = "Write"
         /\ last'.id = w
         /\ hist'.calls = hist.calls + 1
         /\ w \in wheld
         /\ writers[w].buffer # NIL)
        => LET b == bufs[writers[w].buffer]
               nb == bufs'[writers'[w].buffer]
           IN  IF Len(last'.val.v) + 2 <= Remaining(b)
               THEN last'.err = NoErr
               ELSE /\ last'.err = ErrOverflow
                    /\ nb = b]_vars

\* C5: the bytes held by a writer's buffer never exceed the protocol's
\* payload size, and no datagram the endpoint sends is longer.
C5_PayloadBound ==
    /\ \A w \in wheld :
          writers[w].buffer # NIL
              => BufLen(bufs[writers[w].buffer]) <= protocol.Payload
    /\ \A i \in 1..Len(net) :
          net[i].from = "self" => Len(net[i].data) <= protocol.Payload

\* C6 as stated: on a sequenced endpoint the Nth datagram sent carries
\* sequence value N.
C6_NthSentCarriesN ==
    [][(/\ protocol.Sequenced
        /\ last'.op = "Send"
        /\ last'.err = NoErr
        /\ hist'.sent = hist.sent + 1)
       => StampOf(BufBytes(bufs[writers[last'.id].buffer])) = FromNat(hist'.sent)]_vars

\* C6 amended: on a sequenced endpoint every Writer() call advances the
\* counter by one and stamps the new value on the writer it returns, which
\* is N for the Nth call as long as SetSequence was never called; the stamp
\* of an open writer never changes, and a datagram that is sent carries the
\* bytes of its writer.
C6_NthWriterCarriesN ==
    [][/\ (/\ protocol.Sequenced
           /\ last'.op = "Writer"
           /\ hist'.acq = hist.acq + 1)
          => /\ sequence' = Incr64(sequence)
             /\ StampOf(BufBytes(bufs'[writers'[last'.id].buffer])) = sequence'
             /\ ~hist.set => sequence' = FromNat(hist'.acq)
       /\ \A w \in WriterIds :
            (/\ protocol.Sequenced
             /\ w \in DOMAIN writers
             /\ w \in DOMAIN writers'
             /\ writers[w].buffer # NIL
             /\ writers'[w].buffer # NIL
             /\ ~(last'.op = "Writer" /\ last'.id = w))
            => StampOf(BufBytes(bufs'[writers'[w].buffer]))
                   = StampOf(BufBytes(bufs[writers[w].buffer]))
       /\ (last'.op = "Send" /\ Len(net') = Len(net) + 1)
            => net'[Len(net')].data = BufBytes(bufs[writers[last'.id].buffer])]_vars

\* C6 witness: the second writer acquired was sent second, stamped 2.
C6_Witness ==
    /\ protocol.Sequenced
    /\ last.op = "Send"
    /\ last.err = NoErr
    /\ hist.acq = 2
    /\ hist.sent = 2
    /\ ~hist.set
    /\ net # << >>
    /\ StampOf(net[Len(net)].data) = FromNat(2)

\* C7: with a non-zero filter hash, Receive of a datagram whose leading 8
\* bytes differ from it returns no reader and no error.
C7_MismatchDiscarded ==
    [][(/\ last'.op = "Receive"
        /\ hist'.calls = hist.calls + 1
        /\ protocol.Hash # Zero64
        /\ conn = "open"
        /\ net # << >>
        /\ Len(Head(net).data) >= 8
        /\ SubSeq(Head(net).data, 1, 8) # PutUint64(protocol.Hash))
       => /\ last'.id = NIL
          /\ last'.err = NoErr
          /\ readers' = readers]_vars

\* C7 witness: Receive on a hashed endpoint returned no reader and no error.
C7_Witness ==
    /\ last.op = "Receive"
    /\ protocol.Hash # Zero64
    /\ last.id = NIL
    /\ last.err = NoErr

\* C8: the first Close of an open reader succeeds and clears its buffer
\* reference; a closed reader stays closed, every later call on it
\* returns the closed-reader error, and none returns a buffer to the pool.
C8_ClosedReaderAbsorbing ==
    [][\A r \in ReaderIds :
        r \in DOMAIN readers
        => /\ (last'.op = "Close" /\ last'.id = r /\ readers[r].buffer # NIL)
                => /\ last'.err = NoErr
                   /\ readers'[r].buffer = NIL
           /\ (readers[r].buffer = NIL /\ r \in DOMAIN readers')
                => readers'[r].buffer = NIL
           /\ (readers[r].buffer = NIL /\ last'.op \in ReaderOps /\ last'.id = r)
                => /\ last'.err = ErrClosedReader
                   /\ bpool' = bpool
                   /\ bufs' = bufs]_vars

\* C8 witness: a Close of a closed reader returned the closed-reader error.
C8_Witness ==
    /\ last.op = "Close"
    /\ last.err = ErrClosedReader
    /\ last.id \in DOMAIN readers
    /\ readers[last.id].buffer = NIL

\* C9 as stated: a writer that a successful Send released never accepts a
\* write again.
C9_ReleasedForever ==
    [][\A w \in WriterIds :
        (/\ w \in released
         /\ w \in DOMAIN writers'
         /\ last'.op \in WriteOps
         /\ last'.id = w)
        => last'.err = ErrClosedWriter]_vars

\* C9 amended: a successful Send clears the writer's buffer reference, and
\* from then on every write through it fails with the closed-writer error
\* until a Writer() call hands the same pooled instance out again.
C9_ReleasedUntilReacquired ==
    [][\A w \in WriterIds :
        /\ (last'.op = "Send" /\ last'.err = NoErr /\ last'.id = w)
             => /\ writers'[w].buffer = NIL
                /\ w \in released'
        /\ (/\ w \in released
            /\ writers[w].buffer = NIL
            /\ w \in DOMAIN writers'
            /\ ~(last'.op = "Writer" /\ last'.id = w))
             => /\ writers'[w].buffer = NIL
                /\ (last'.op \in WriteOps /\ last'.id = w)
                      => last'.err = ErrClosedWriter]_vars

\* C9 witness: a write through a released writer got the closed-writer error.
C9_Witness ==
    /\ last.op \in WriteOps
    /\ last.id \in released
    /\ last.err = ErrClosedWriter

\* C10: a datagram the endpoint sent to a peer with its own protocol
\* descriptor is received without error, and reading the types that were
\* written, in order, returns the values that were written.
C10_RoundTrip ==
    [][/\ (/\ last'.op = "Receive"
           /\ hist'.calls = hist.calls + 1
           /\ conn = "open"
           /\ net # << >>
           /\ Head(net).from = "self")
          => /\ last'.id # NIL
             /\ last'.err = NoErr
       /\ \A r \in ReaderIds :
            (/\ r \in DOMAIN readers
             /\ last'.op \in ReadOps
             /\ last'.id = r
             /\ readers[r].buffer # NIL
             /\ readers[r].aligned
             /\ readers[r].k < Len(readers[r].log)
             /\ readers[r].log[readers[r].k + 1].t = last'.val.t)
            => /\ last'.err = NoErr
               /\ last'.val = readers[r].log[readers[r].k + 1]]_vars

\* C11: every exit of Receive, Send and Reader.Close has returned the
\* buffer the call borrowed or was handed: a Receive that returns no reader
\* has recycled the buffer it took, a Send of an open writer and a Close of
\* an open reader have recycled theirs and cleared the reference, and no
\* call recycles a buffer that is idle in the pool already.
C11_ReturnedOnEveryExit ==
    [][/\ (/\ last'.op = "Receive"
           /\ hist'.calls = hist.calls + 1
           /\ conn = "open"
           /\ last'.id = NIL)
          => Cardinality(bpool') = Max(1, Cardinality(bpool))
       /\ \A w \in WriterIds :
            (/\ last'.op = "Send"
             /\ last'.id = w
             /\ hist'.calls = hist.calls + 1
             /\ w \in wheld
             /\ writers[w].buffer # NIL)
            => /\ writers'[w].buffer = NIL
               /\ writers[w].buffer \notin bpool
               /\ bpool' = PoolRecycle(bpool, args.pool, writers[w].buffer)
       /\ \A r \in ReaderIds :
            (/\ last'.op = "Close"
             /\ last'.id = r
             /\ r \in DOMAIN readers
             /\ readers[r].buffer # NIL)
            => /\ readers'[r].buffer = NIL
               /\ readers[r].buffer \notin bpool
               /\ bpool' = PoolRecycle(bpool, args.pool, readers[r].buffer)]_vars

\* C12: a Send of an open writer recycles the writer's buffer and the writer
\* exactly when the transmission succeeds; when it fails the error is
\* returned, both pools, the writer's buffer reference and every buffer's
\* bytes are as before.
C12_SendRecyclesIffSent ==
    [][\A w \in WriterIds :
        (/\ last'.op = "Send"
         /\ last'.id = w
         /\ hist'.calls = hist.calls + 1
         /\ w \in wheld
         /\ writers[w].buffer # NIL)
        => /\ (last'.err = NoErr) <=> (hist'.sent = hist.sent + 1)
           /\ last'.err = NoErr
                => /\ bpool' = PoolRecycle(bpool, args.pool, writers[w].buffer)
                   /\ wpool' = PoolRecycle(wpool, args.pool, w)
                   /\ writers'[w].buffer = NIL
           /\ last'.err # NoErr
                => /\ last'.err = ErrTransport
                   /\ bpool' = bpool
                   /\ wpool' = wpool
                   /\ writers' = writers
                   /\ bufs' = bufs
                   /\ net' = net]_vars

\* C12 witness: a Send failed and its writer still holds its buffer, with
\* the bytes written into it.
C12_Witness ==
    /\ last.op = "Send"
    /\ last.err = ErrTransport
    /\ last.id \in wheld
    /\ writers[last.id].buffer # NIL
    /\ writers[last.id].buffer \notin bpool
    /\ writers[last.id].log # << >>
    /\ BufLen(bufs[writers[last.id].buffer]) >= 3

\* C13: whenever Receive returns an error the reader it returns is nil, so a
\* reader comes only with a nil error.
C13_ErrorMeansNoReader ==
    (last.op = "Receive" /\ last.err # NoErr) => last.id = NIL

\* The stamp on the writer task t got.
TaskStampOf(t) == StampOf(BufBytes(bufs[writers[tasks.w[t]].buffer]))

\* C14: increment-then-write in Writer() is not atomic.  Two tasks whose
\* increment-to-stamp sections did not overlap get the two values after the
\* counter's start, one each, and leave the counter at the second; once the
\* sections overlap nothing of this is guaranteed (the witness is a run
\* with a duplicate and a skipped value).
C14_SerialOnlyWhenDisjoint ==
    (~tasks.overlap /\ \A t \in TaskIds : tasks.pc[t] = "done")
        => /\ {TaskStampOf(t) : t \in TaskIds}
                 = {Incr64(tasks.start), Incr64(Incr64(tasks.start))}
           /\ sequence = Incr64(Incr64(tasks.start))

\* C14 witness: both tasks returned from Writer(), both writers carry the
\* same stamp, start + 2, and no writer carries start + 1.
C14_Witness ==
    /\ \A t \in TaskIds : tasks.pc[t] = "done"
    /\ tasks.overlap
    /\ \A t \in TaskIds : TaskStampOf(t) = Incr64(Incr64(tasks.start))
    /\ wheld = {tasks.w[t] : t \in TaskIds}
    /\ Cardinality(wheld) = 2

\* The writers and readers that reference buffer b.
WritersOf(b) == {w \in DOMAIN writers : writers[w].buffer = b}
ReadersOf(b) == {r \in DOMAIN readers : readers[r].buffer = b}

\* No buffer is idle in the pool and referenced, or referenced twice, and no
\* idle writer is open.
ExclusiveOwnership ==
    /\ \A b \in bpool : WritersOf(b) = {} /\ ReadersOf(b) = {}
    /\ \A b \in DOMAIN bufs : Cardinality(WritersOf(b)) + Cardinality(ReadersOf(b)) <= 1
    /\ \A w \in wpool : writers[w].buffer = NIL

\* C15: a pooled buffer has at most one holder (it is never idle in the
\* pool and referenced by an open writer or reader, and never referenced by
\* two of them), and Writer() never hands out a writer that is open in
\* another caller's hands, nor a buffer that something references.
C15_ExclusiveOwnership ==
    [][/\ ExclusiveOwnership'
       /\ (last'.op = "Writer" /\ hist'.acq = hist.acq + 1)
            => /\ last'.id \in DOMAIN writers => writers[last'.id].buffer = NIL
               /\ \A b \in DOMAIN bufs :
                     writers'[last'.id].buffer = b
                        => WritersOf(b) = {} /\ ReadersOf(b) = {}]_vars

\* C15 witness: Writer() handed out a recycled writer while a reader is
\* open, and the two hold different buffers.
C15_Witness ==
    /\ last.op = "Writer"
    /\ last.id \in released
    /\ writers[last.id].buffer # NIL
    /\ \E r \in DOMAIN readers :
          /\ readers[r].buffer # NIL
          /\ readers[r].buffer # writers[last.id].buffer

\* C16: Read() on an open reader takes the 2-byte big-endian length, fails
\* with the overflow error when it is above 65507, returns exactly that many
\* of the following bytes when they are there, and returns an error when
\* fewer bytes than the declared length remain.
C16_ReadBytes ==
    [][\A r \in ReaderIds :
        (/\ last'.op = "Read"
         /\ last'.id = r
         /\ r \in DOMAIN readers
         /\ readers[r].buffer # NIL)
        => LET rest == BufBytes(bufs[readers[r].buffer])
               length == Uint16(SubSeq(rest, 1, 2))
           IN  IF Len(rest) < 2 THEN last'.err # NoErr
               ELSE IF length > 65507 THEN last'.err = ErrOverflow
               ELSE IF Len(rest) - 2 >= length
               THEN /\ last'.err = NoErr
                    /\ last'.val.v = SubSeq(rest, 3, 2 + length)
               ELSE last'.err # NoErr]_vars

\* C17: the reader a successful Receive returns exposes exactly the bytes of
\* the datagram just received, cut to the payload size, after the header,
\* whatever the buffer held before.
C17_NoResidualBytes ==
    [][(/\ last'.op = "Receive"
        /\ hist'.calls = hist.calls + 1
        /\ last'.id # NIL
        /\ last'.err = NoErr)
       => /\ conn = "open"
          /\ net # << >>
          /\ BufBytes(bufs'[readers'[last'.id].buffer])
               = SubSeq(Head(net).data, HeaderSize + 1,
                        Min(Len(Head(net).data), protocol.Payload))]_vars

\* C17 witness: on a sequenced endpoint the buffer that carried the datagram
\* stamped 1 was recycled by Send, and the reader of the next Receive, in
\* that buffer, exposes the 2 bytes that follow the header of the datagram
\* that arrived.
C17_Witness ==
    /\ last.op = "Receive"
    /\ last.err = NoErr
    /\ last.id # NIL
    /\ last.addr = "stranger"
    /\ protocol.Sequenced
    /\ hist.sent = 1
    /\ hist.acq = 1
    /\ bpool = {}
    /\ \A w \in DOMAIN writers : writers[w].buffer = NIL
    /\ BufBytes(bufs[readers[last.id].buffer]) = <<0, 1>>

\* C18: only SetSequence and Writer() change e.sequence: SetSequence stores
\* its argument, Writer() adds exactly 1 on a sequenced endpoint and nothing
\* on an unsequenced one, and every other call leaves the counter alone.
C18_SequenceFrame ==
    [][IF last'.op = "SetSequence" /\ hist'.calls = hist.calls + 1
       THEN sequence' = last'.val.v
       ELSE IF last'.op = "Writer" /\ hist'.acq = hist.acq + 1
       THEN sequence' = IF protocol.Sequenced THEN Incr64(sequence) ELSE sequence
       ELSE sequence' = sequence]_vars

\* C18 witness: two writers were acquired and none sent, the counter is 2,
\* and a Receive that returned a peer's sequence value left it there.
C18_Witness ==
    /\ protocol.Sequenced
    /\ hist.acq = 2
    /\ hist.sent = 0
    /\ ~hist.set
    /\ sequence = FromNat(2)
    /\ last.op = "Receive"
    /\ last.id # NIL
    /\ last.err = NoErr
    /\ last.val.v # sequence

\* (u + 1) mod 2^64, limb by limb with carries.
PlusOneMod(u) ==
    LET s4 == u[4] + 1
        s3 == u[3] + (s4 \div 65536)
        s2 == u[2] + (s3 \div 65536)
        s1 == u[1] + (s2 \div 65536)
    IN  <<s1 % 65536, s2 % 65536, s3 % 65536, s4 % 65536>>

\* C19: SetSequence(s) makes s the counter; the next Writer() on a sequenced
\* endpoint stamps (counter + 1) mod 2^64 on its writer, without an error,
\* and LastSequence() then returns that value, so after SetSequence(2^64 - 1)
\* the stamp is 0.
C19_StampAfterSetSequence ==
    [][/\ (last'.op = "SetSequence" /\ hist'.calls = hist.calls + 1)
            => sequence' = last'.val.v
       /\ (last'.op = "Writer" /\ hist'.acq = hist.acq + 1 /\ protocol.Sequenced)
            => /\ last'.err = NoErr
               /\ status' = "ok"
               /\ sequence' = PlusOneMod(sequence)
               /\ StampOf(BufBytes(bufs'[writers'[last'.id].buffer]))
                     = PlusOneMod(sequence)
               /\ last.op = "SetSequence"
                     => sequence' = PlusOneMod(last.val.v)
       /\ (last'.op = "LastSequence" /\ hist'.calls = hist.calls + 1)
            => last'.val.v = sequence]_vars

\* C19 witness: after SetSequence(2^64 - 1) a writer was acquired, it is
\* stamped 0, and LastSequence() returned 0.
C19_Witness ==
    /\ protocol.Sequenced
    /\ hist.set
    /\ hist.acq = 1
    /\ hist.calls = 3
    /\ last.op = "LastSequence"
    /\ last.val.v = Zero64
    /\ \E w \in wheld :
          /\ writers[w].buffer # NIL
          /\ StampOf(BufBytes(bufs[writers[w].buffer])) = Zero64

\* C20: a Receive whose socket read times out returns the transport error
\* and no reader, and the buffer it took is gone: an idle buffer has left
\* the pool for good, none has come back, and nothing references it.  With
\* the pool empty the next Writer() gets a buffer that did not exist before.
C20_TimeoutLeaksBuffer ==
    [][/\ (/\ last'.op = "Receive"
           /\ hist'.calls = hist.calls + 1
           /\ conn = "open"
           /\ net = << >>)
          => /\ last'.err = ErrTransport
             /\ last'.id = NIL
             /\ bpool' \subseteq bpool
             /\ Cardinality(bpool') = Max(0, Cardinality(bpool) - 1)
             /\ \A b \in bpool \ bpool' : b \notin DOMAIN bufs'
             /\ DOMAIN bufs' \subseteq DOMAIN bufs
       /\ (/\ last'.op = "Writer"
           /\ hist'.acq = hist.acq + 1
           /\ bpool = {})
          => writers'[last'.id].buffer \notin DOMAIN bufs]_vars

\* C20 witness: Send recycled the one buffer there was, a Receive timed out,
\* and now the pool is empty and the buffer is nowhere.
C20_Witness ==
    /\ last.op = "Receive"
    /\ last.err = ErrTransport
    /\ conn = "open"
    /\ hist.calls = 3
    /\ hist.acq = 1
    /\ hist.sent = 1
    /\ bpool = {}
    /\ DOMAIN bufs = {}

\* C21: on a writer whose buffer reference has been cleared, Remaining()
\* aborts with a nil dereference and returns nothing, while every write
\* method returns the closed-writer error and the program goes on; on an
\* open writer Remaining() returns capacity minus length.
C21_RemainingHasNoClosedCheck ==
    [][\A w \in WriterIds :
        (/\ last'.id = w
         /\ hist'.calls = hist.calls + 1
         /\ w \in wheld)
        => /\ (last'.op = "Remaining" /\ writers[w].buffer = NIL)
                => /\ status' = "panic"
                   /\ last'.err = "nil pointer dereference"
                   /\ last'.val = None
           /\ (last'.op = "Remaining" /\ writers[w].buffer # NIL)
                => /\ status' = "ok"
                   /\ last'.err = NoErr
                   /\ last'.val.v = BufCap(bufs[writers[w].buffer])
                                       - BufLen(bufs[writers[w].buffer])
           /\ (last'.op \in WriteOps /\ writers[w].buffer = NIL)
                => /\ status' = "ok"
                   /\ last'.err = ErrClosedWriter
                   /\ bufs' = bufs]_vars

\* C21 witness: a successful Send released the writer, and the fourth call,
\* Remaining() on that writer, aborted.
C21_Witness ==
    /\ status = "panic"
    /\ last.op = "Remaining"
    /\ last.id \in released
    /\ writers[last.id].buffer = NIL
    /\ hist.calls = 4
    /\ hist.sent = 1

====
